---- MODULE Spec2Model ----
(***************************************************************************)
(* A model of the cache middleware of src/cache.go: construction (New),    *)
(* the request path (cache.ServeHTTP, cache.cacheable, cacheKey and the    *)
(* capturing responseWriter) and the file store it uses (fileCache, whose  *)
(* code is not part of src/ and is modelled from spec.md, section 4.1).    *)
(*                                                                         *)
(* Time is counted in whole seconds.  Strings are TLA+ strings; a header   *)
(* map is a function from header names to the sequence of their values.    *)
(***************************************************************************)
EXTENDS Integers, Sequences, FiniteSets, TLC

VARIABLES cfg, next, inst, uriMap, now, store, clients, h, faults

vars == <<cfg, next, inst, uriMap, now, store, clients, h, faults>>

(***************************************************************************)
(* Bounds of the model.                                                    *)
(***************************************************************************)
\* The MaxExpiry of the model's configurations that New accepts (0 and 1 are
\* the others).
MaxCfgExpiry == 2
\* The Cleanup of the model's configurations that New accepts (0 and 1 are
\* the others).
MaxCfgCleanup == 2
\* The large TTL of the model: DefaultTTL, rule TTLs and max-age values are
\* drawn from {0, 1, BigTTL}.
BigTTL == 3
\* The clock stops advancing at MaxTime.
MaxTime == 2

(***************************************************************************)
(* Go's time package, in seconds.                                          *)
(***************************************************************************)
\* time.Time{}: the zero instant, far before every instant of the model.
zeroTime == -100000
\* time.Until of the zero instant saturates at the minimum Duration
\* (about -292 years); it stands below every TTL and instant of the model.
minDuration == -90000

Until(t, tnow) == IF t = zeroTime THEN minDuration ELSE t - tnow

Min(a, b) == IF a < b THEN a ELSE b

(***************************************************************************)
(* Requests and cache keys.                                                *)
(***************************************************************************)
Methods == {"GET", "POST"}
Hosts == {"h"}
Paths == {"/a"}
Queries == {"", "?q"}

Requests == [Method : Methods, Host : Hosts, Path : Paths, RawQuery : Queries]

\* r.URL.String() of a server request: the path and, if any, the query.
URLString(r) == r.Path \o r.RawQuery

\* A key that also depends on the query string.
cacheKeyWithQuery(r) == r.Method \o r.Host \o URLString(r)

cacheKey(r) == r.Method \o r.Host \o r.Path

Keys == {cacheKey(r) : r \in Requests}

(***************************************************************************)
(* Headers.                                                                *)
(***************************************************************************)
cacheHeader == "Cache-Status"
cacheHitStatus == "hit"
cacheMissStatus == "miss"
cacheErrorStatus == "error"

HeaderNames == {"Cache-Control", cacheHeader}

NoHeaders == [n \in HeaderNames |-> <<>>]

HeaderSet(hdr, n, v) == [hdr EXCEPT ![n] = <<v>>]

\* for key, vals := range src { for _, val := range vals { dst.Add(key, val) } }
HeaderAddAll(dst, src) == [n \in HeaderNames |-> dst[n] \o src[n]]

MaxAgeValue(n) == "max-age=" \o ToString(n)

(***************************************************************************)
(* Configuration (Config, CreateConfig) and the wrapped handler.           *)
(***************************************************************************)
\* The storage locations of the model: one the store accepts, one it rejects.
StoragePaths == {"/cache", ""}

\* The rule patterns of the model: two that compile and match some URL, one
\* that compiles and matches none, one that does not compile.
Patterns == {"/a", "q$", "^/b", "("}

\* regexp.Compile: whether the pattern compiles.
Compiles(pat) == pat # "("

\* (*regexp.Regexp).MatchString, for the patterns and URLs of the model: an
\* unanchored pattern matches anywhere in the string.
MatchString(pat, s) ==
    CASE pat = "/a" -> s \in {"/a", "/a?q"}
      [] pat = "q$" -> s \in {"/a?q"}
      [] OTHER -> FALSE

Rule(pat, ttl) == [Pattern |-> pat, TTL |-> ttl]

UriLists ==
    { <<>>,
      <<Rule("q$", 1)>>,
      <<Rule("/a", 0)>>,
      <<Rule("(", 1), Rule("^/b", 1)>>,
      <<Rule("/a", BigTTL), Rule("q$", 1)>> }

\* AllowedHTTPMethods as CreateConfig sets it.
DefaultAllowedHTTPMethods == <<"GET", "HEAD">>

Configs ==
    [ Path : StoragePaths,
      MaxExpiry : {0, 1, MaxCfgExpiry},
      Cleanup : {0, 1, MaxCfgCleanup},
      AddStatusHeader : BOOLEAN,
      AllowedHTTPMethods : {DefaultAllowedHTTPMethods},
      SkipCacheControlHeader : BOOLEAN,
      DefaultTTL : {0, BigTTL},
      URIs : UriLists ]

\* The Cache-Control values a handler of the model sets ("" sets none).
Directives == {"", "no-store", MaxAgeValue(1), MaxAgeValue(BigTTL), "bad"}

\* The wrapped handler (the next field): it sets Cache-Control to CC (if not
\* ""), calls WriteHeader(Code) unless Code = 0, writes Body, and then, with
\* the response already on its way, sets Cache-Control to Late (if not "").
Handlers ==
    [Code : {0, 200, 500}, CC : Directives, Body : {"x"}, Late : {"", MaxAgeValue(1)}]

\* The pairs of a configuration and a handler the model starts from.  A
\* field the configured mode never reads takes fewer values: in standard
\* mode the rule list, in override mode the handler's Cache-Control and,
\* with a Cache-Control header, its status.  The late header change is taken
\* with one handler, in standard mode, where the headers are read.
Scenarios ==
    { s \in Configs \X Handlers :
        /\ IF s[1].SkipCacheControlHeader
           THEN /\ s[2].CC \in {"", "no-store"}
                /\ s[2].CC # "" => s[2].Code \in {0, 200}
                /\ s[2].Late = ""
           ELSE s[1].URIs \in {<<>>, <<Rule("/a", 0)>>}
        /\ s[2].Late # "" => (s[2].Code = 200 /\ s[2].CC = "") }

(***************************************************************************)
(* The store (fileCache): not part of src/, modelled from spec.md 4.1.     *)
(***************************************************************************)
NoEntry == [b |-> <<>>, expires |-> zeroTime, present |-> FALSE]

\* newFileCache: fails when the storage location is invalid.
newFileCacheOk(path) == path # ""

\* An entry counts as expired once its expiry instant has passed.
Expired(e, t) == e.expires < t

\* Get that never looks at the expiry instant.
StoreGetNoExpiry(st, key, t) ==
    IF st[key].present THEN [b |-> st[key].b, err |-> FALSE]
    ELSE [b |-> <<>>, err |-> TRUE]

\* Get: the live entry of the key, or not-found.
StoreGet(st, key, t) ==
    IF st[key].present /\ ~Expired(st[key], t)
    THEN [b |-> st[key].b, err |-> FALSE]
    ELSE [b |-> <<>>, err |-> TRUE]

\* Set: writes or overwrites the entry, expiring at now + ttl.
StoreSet(st, key, b, ttl, t) ==
    [st EXCEPT ![key] = [b |-> b, expires |-> t + ttl, present |-> TRUE]]

\* One sweep: every entry whose expiry instant has passed is removed.
StoreSweep(st, t) ==
    [k \in DOMAIN st |-> IF st[k].present /\ Expired(st[k], t) THEN NoEntry ELSE st[k]]

\* Damage to a stored blob on the storage medium: the blob is cut short.
Truncate(b) == SubSeq(b, 1, Min(3, Len(b)))

(***************************************************************************)
(* cacheData and its JSON encoding (json.Marshal / json.Unmarshal).        *)
(***************************************************************************)
cacheData(expiresAt, status, headers, body) ==
    [ExpiresAt |-> expiresAt, Status |-> status, Headers |-> headers, Body |-> body]

\* The encoded object: an opening brace, the four fields, a closing brace.
Marshal(d) == <<"{", d.ExpiresAt, d.Status, d.Headers, d.Body, "}">>

\* Whether the bytes decode: a complete object, and nothing else, does.
UnmarshalOk(b) == Len(b) = 6 /\ b[1] = "{" /\ b[6] = "}"

Unmarshal(b) == cacheData(b[2], b[3], b[4], b[5])

(***************************************************************************)
(* cachecontrol.CachableResponseWriter, as cache.cacheable calls it: the   *)
(* reasons that prevent caching, the instant the response expires, and     *)
(* the error of a Cache-Control header that does not parse.                *)
(***************************************************************************)
CacheControlOf(hdr) ==
    IF hdr["Cache-Control"] = <<>> THEN "" ELSE hdr["Cache-Control"][1]

IsMaxAge(cc) == \E n \in 0..BigTTL : cc = MaxAgeValue(n)

MaxAgeOf(cc) == CHOOSE n \in 0..BigTTL : cc = MaxAgeValue(n)

\* The status codes a cache may store without explicit freshness.
CachableStatusCodes == {200, 203, 204, 206, 300, 301, 404, 405, 410, 414, 501}

CachableResponseWriter(r, status, hdr, t) ==
    LET cc == CacheControlOf(hdr)
        explicit == IsMaxAge(cc)
        reasons ==
            (IF r.Method \notin {"GET", "HEAD", "POST"}
                THEN {"ReasonRequestMethodUnkown"} ELSE {})
            \cup (IF r.Method = "POST" /\ ~explicit
                    THEN {"ReasonRequestMethodPOST"} ELSE {})
            \cup (IF cc = "no-store" THEN {"ReasonResponseNoStore"} ELSE {})
            \cup (IF ~explicit /\ status \notin CachableStatusCodes
                    THEN {"ReasonResponseUncachableByDefault"} ELSE {})
    IN IF cc = "bad"
       THEN [reasons |-> {}, expireBy |-> zeroTime, err |-> TRUE]
       ELSE [reasons |-> reasons,
             expireBy |-> IF explicit THEN t + MaxAgeOf(cc) ELSE zeroTime,
             err |-> FALSE]

(***************************************************************************)
(* cache.cacheable.  The rules are kept in a Go map, whose iteration order *)
(* is not fixed: the operator yields every result an order can produce.    *)
(***************************************************************************)
\* New's uriMap: one compiled pattern (a pointer, here the rule's index) per
\* rule whose pattern compiles.
BuildUriMap(uris) ==
    { [re |-> i, pat |-> uris[i].Pattern, ttl |-> uris[i].TTL] :
        i \in {j \in 1..Len(uris) : Compiles(uris[j].Pattern)} }

Result(expiry, ok) == [expiry |-> expiry, ok |-> ok]

\* A clamp that is left out.
ClampNone(expiry, maxExpiry) == expiry

\* if maxExpiry < expiry { expiry = maxExpiry }
Clamp(expiry, maxExpiry) == IF maxExpiry < expiry THEN maxExpiry ELSE expiry

\* Standard mode that does not look at the error of the evaluation.
cacheableStandardIgnoreErr(c, r, hdr, status, t) ==
    LET cr == CachableResponseWriter(r, status, hdr, t)
    IN IF cr.reasons # {}
       THEN {Result(0, FALSE)}
       ELSE {Result(Clamp(Until(cr.expireBy, t), c.MaxExpiry), TRUE)}

cacheableStandard(c, r, hdr, status, t) ==
    LET cr == CachableResponseWriter(r, status, hdr, t)
    IN IF cr.err \/ cr.reasons # {}
       THEN {Result(0, FALSE)}
       ELSE LET expireBy == IF c.SkipCacheControlHeader
                            THEN t + c.DefaultTTL
                            ELSE cr.expireBy
            IN {Result(Clamp(Until(expireBy, t), c.MaxExpiry), TRUE)}

\* Override mode that falls back to a DefaultTTL of 0 too.
cacheableOverrideZeroDefault(c, um, r) ==
    LET matching == {e \in um : MatchString(e.pat, URLString(r))}
    IN IF matching # {}
       THEN {Result(Clamp(e.ttl, c.MaxExpiry), TRUE) : e \in matching}
       ELSE IF c.DefaultTTL >= 0
            THEN {Result(Clamp(c.DefaultTTL, c.MaxExpiry), TRUE)}
            ELSE {Result(0, FALSE)}

cacheableOverride(c, um, r) ==
    LET matching == {e \in um : MatchString(e.pat, URLString(r))}
    IN IF matching # {}
       THEN {Result(Clamp(e.ttl, c.MaxExpiry), TRUE) : e \in matching}
       ELSE IF c.DefaultTTL > 0
            THEN {Result(Clamp(c.DefaultTTL, c.MaxExpiry), TRUE)}
            ELSE {Result(0, FALSE)}

cacheable(c, um, r, hdr, status, t) ==
    IF ~c.SkipCacheControlHeader
    THEN cacheableStandard(c, r, hdr, status, t)
    ELSE cacheableOverride(c, um, r)

(***************************************************************************)
(* The client's http.ResponseWriter (w) and the capturing responseWriter   *)
(* (rw) wrapped around it.                                                 *)
(*   w.hdr     the header map w.Header() returns                           *)
(*   w.code    the status sent to the client, 0 while none is sent         *)
(*   w.sent    the headers sent to the client (those of w.hdr when the     *)
(*             status was sent)                                            *)
(*   w.body    the body bytes sent to the client                           *)
(*   w.panic   whether a call on w panicked                                *)
(***************************************************************************)
NewW == [hdr |-> NoHeaders, code |-> 0, sent |-> NoHeaders, body |-> "", panic |-> FALSE]

NewRW == [status |-> 0, body |-> ""]

\* http.ResponseWriter.WriteHeader: a code outside 100..999 panics; a second
\* call changes nothing.
WWriteHeader(w, s) ==
    IF w.panic THEN w
    ELSE IF s < 100 \/ s > 999 THEN [w EXCEPT !.panic = TRUE]
    ELSE IF w.code # 0 THEN w
    ELSE [w EXCEPT !.code = s, !.sent = w.hdr]

\* http.ResponseWriter.Write: sends status 200 first if none was sent.
WWrite(w, p) ==
    IF w.panic THEN w
    ELSE LET w1 == WWriteHeader(w, IF w.code = 0 THEN 200 ELSE w.code)
         IN [w1 EXCEPT !.body = @ \o p]

\* responseWriter.WriteHeader
RWWriteHeader(x, s) ==
    [rw |-> [x.rw EXCEPT !.status = s], w |-> WWriteHeader(x.w, s)]

\* A Write that keeps the bytes for the entry and forwards nothing.
RWWriteBufferOnly(x, p) ==
    [rw |-> [x.rw EXCEPT !.body = @ \o p], w |-> x.w]

\* responseWriter.Write
RWWrite(x, p) ==
    [rw |-> [x.rw EXCEPT !.body = @ \o p], w |-> WWrite(x.w, p)]

\* m.next.ServeHTTP(rw, r) for handler hd: the pair (rw, w) it leaves.
RunHandler(hd, x) ==
    LET x1 == IF hd.CC = "" THEN x
              ELSE [x EXCEPT !.w.hdr = HeaderSet(@, "Cache-Control", hd.CC)]
        x2 == IF hd.Code = 0 THEN x1 ELSE RWWriteHeader(x1, hd.Code)
        x3 == RWWrite(x2, hd.Body)
    IN IF hd.Late = "" THEN x3
       ELSE [x3 EXCEPT !.w.hdr = HeaderSet(@, "Cache-Control", hd.Late)]

(***************************************************************************)
(* cache.ServeHTTP, in its three steps: the lookup (with the replay of a   *)
(* hit), the call of the wrapped handler, and admission with write-back.   *)
(***************************************************************************)
\* A lookup that takes bytes that do not decode for a hit.
LookupStatusNoDecodeCheck(g) ==
    IF g.err THEN cacheMissStatus ELSE cacheHitStatus

\* The outcome of the lookup from Get's result: a hit when Get succeeds and
\* the bytes decode, "error" when they do not decode, a miss otherwise.
LookupStatus(g) ==
    IF g.err THEN cacheMissStatus
    ELSE IF UnmarshalOk(g.b) THEN cacheHitStatus
    ELSE cacheErrorStatus

\* b, err := json.Marshal(data): the encoding, or no bytes and an error.
MarshalOutcomes(d) ==
    {[b |-> Marshal(d), err |-> FALSE], [b |-> <<>>, err |-> TRUE]}

\* The zero cacheData, which a failed Unmarshal leaves.
ZeroData == cacheData(zeroTime, 0, NoHeaders, "")

\* A replay that adds its Cache-Status value to the stored one.
ReplayAddingStatus(w, data, addStatusHeader, t) ==
    LET w1 == [w EXCEPT !.hdr = HeaderAddAll(@, data.Headers)]
        w2 == IF addStatusHeader
              THEN [w1 EXCEPT !.hdr =
                      [HeaderSet(@, "Cache-Control", MaxAgeValue(data.ExpiresAt - t))
                         EXCEPT ![cacheHeader] = @ \o <<cacheHitStatus>>]]
              ELSE w1
    IN WWrite(WWriteHeader(w2, data.Status), data.Body)

\* The replay of a decoded entry to the client.
Replay(w, data, addStatusHeader, t) ==
    LET w1 == [w EXCEPT !.hdr = HeaderAddAll(@, data.Headers)]
        w2 == IF addStatusHeader
              THEN [w1 EXCEPT !.hdr =
                      HeaderSet(HeaderSet(@, "Cache-Control",
                                          MaxAgeValue(data.ExpiresAt - t)),
                                cacheHeader, cacheHitStatus)]
              ELSE w1
    IN WWrite(WWriteHeader(w2, data.Status), data.Body)

NoSet ==
    [ called |-> FALSE, key |-> "", b |-> <<>>, ttl |-> 0, err |-> FALSE,
      encErr |-> FALSE ]

Idle ==
    [ pc |-> "idle", r |-> [Method |-> "", Host |-> "", Path |-> "", RawQuery |-> ""],
      key |-> "", cs |-> "", w |-> NewW, rw |-> NewRW, calls |-> 0, set |-> NoSet,
      seen |-> NoEntry, tGet |-> 0 ]

(***************************************************************************)
(* New.                                                                    *)
(***************************************************************************)
\* New's outcome for a configuration: the error it returns, or "" when it
\* constructs the instance.
NewError(c) ==
    IF c.MaxExpiry <= 1 THEN "maxExpiry must be greater or equal to 1"
    ELSE IF c.Cleanup <= 1 THEN "cleanup must be greater or equal to 1"
    ELSE IF ~newFileCacheOk(c.Path) THEN "invalid storage location"
    ELSE ""

(***************************************************************************)
(* The state.                                                              *)
(*   cfg, next   the configuration and the wrapped handler given to New    *)
(*   inst        "init" before New, then "ok" or "error"                   *)
(*   uriMap      the compiled rules of the instance                        *)
(*   now         the clock, in seconds                                     *)
(*   store       the entries of the file store, by key                     *)
(*   clients     the requests the server handles at a time                 *)
(*   h           per client, the ServeHTTP execution: its position (pc),   *)
(*               request, key, lookup outcome (cs), writers, the number of *)
(*               calls of the wrapped handler, the Set call it made, and   *)
(*               what its lookup found in the store (seen) and when (tGet) *)
(*   faults      how many faults happened so far: a stored blob damaged,   *)
(*               an encoding failed (a behaviour has at most one)          *)
(***************************************************************************)
Init ==
    /\ \E s \in Scenarios : cfg = s[1] /\ next = s[2]
    /\ inst = "init"
    /\ uriMap = {}
    /\ now = 0
    /\ store = [k \in Keys |-> NoEntry]
    /\ clients = {1}
    /\ h = [c \in clients |-> Idle]
    /\ faults = 0

New ==
    /\ inst = "init"
    /\ IF NewError(cfg) # ""
       THEN inst' = "error" /\ uriMap' = uriMap
       ELSE inst' = "ok" /\ uriMap' = BuildUriMap(cfg.URIs)
    /\ UNCHANGED <<cfg, next, now, store, clients, h, faults>>

\* ServeHTTP up to the call of the wrapped handler, as the execution of
\* client c stands after it: key, Get, decode, and on a hit the replay, which
\* ends the request.
LookupResult(c, r) ==
    LET key == cacheKey(r)
        g == StoreGet(store, key, now)
        cs == LookupStatus(g)
        p0 == [h[c] EXCEPT !.r = r, !.key = key, !.cs = cs,
                          !.seen = store[key], !.tGet = now]
    IN IF cs = cacheHitStatus
       THEN LET data == IF UnmarshalOk(g.b) THEN Unmarshal(g.b) ELSE ZeroData
            IN [p0 EXCEPT !.w = Replay(p0.w, data, cfg.AddStatusHeader, now),
                          !.pc = "done"]
       ELSE [p0 EXCEPT !.w.hdr = IF cfg.AddStatusHeader
                                 THEN HeaderSet(@, cacheHeader, cs)
                                 ELSE @,
                       !.pc = "next"]

\* A lookup that removes the entry it did not serve.
LookupEvicting(c, r) ==
    /\ inst = "ok"
    /\ h[c].pc = "idle"
    /\ h' = [h EXCEPT ![c] = LookupResult(c, r)]
    /\ store' = IF LookupResult(c, r).cs = cacheHitStatus THEN store
                ELSE [store EXCEPT ![cacheKey(r)] = NoEntry]
    /\ UNCHANGED <<cfg, next, inst, uriMap, now, clients, faults>>

\* The lookup step of ServeHTTP for a request r of client c.
Lookup(c, r) ==
    /\ inst = "ok"
    /\ h[c].pc = "idle"
    /\ h' = [h EXCEPT ![c] = LookupResult(c, r)]
    /\ UNCHANGED <<cfg, next, inst, uriMap, now, store, clients, faults>>

\* rw := &responseWriter{ResponseWriter: w}; m.next.ServeHTTP(rw, r)
Upstream(c) ==
    /\ h[c].pc = "next"
    /\ LET x == RunHandler(next, [rw |-> NewRW, w |-> h[c].w])
       IN h' = [h EXCEPT ![c] =
                  [@ EXCEPT !.rw = x.rw, !.w = x.w, !.calls = @ + 1, !.pc = "admit"]]
    /\ UNCHANGED <<cfg, next, inst, uriMap, now, store, clients, faults>>

\* ServeHTTP after the handler returned: cacheable, and if it admits the
\* response, the entry is built and encoded, and whatever bytes the encoder
\* returned, error or not, are handed to Set, which may fail.  A failed
\* encoding is a fault, and uses up the one fault of the behaviour.
Admit(c) ==
    /\ h[c].pc = "admit"
    /\ \E res \in cacheable(cfg, uriMap, h[c].r, h[c].w.hdr, h[c].rw.status, now) :
         IF ~res.ok
         THEN /\ h' = [h EXCEPT ![c].pc = "done"]
              /\ store' = store
              /\ faults' = faults
         ELSE LET key == h[c].key
                  data == cacheData(now + res.expiry, h[c].rw.status,
                                    h[c].w.hdr, h[c].rw.body)
              IN \E m \in MarshalOutcomes(data), failed \in BOOLEAN :
                   /\ m.err => faults = 0
                   /\ faults' = IF m.err THEN faults + 1 ELSE faults
                   /\ h' = [h EXCEPT ![c] =
                              [@ EXCEPT !.pc = "done",
                                        !.set = [called |-> TRUE, key |-> key,
                                                 b |-> m.b, ttl |-> res.expiry,
                                                 err |-> failed, encErr |-> m.err]]]
                   /\ store' = IF failed THEN store
                               ELSE StoreSet(store, key, m.b, res.expiry, now)
    /\ UNCHANGED <<cfg, next, inst, uriMap, now, clients>>

\* The request is over; the client may send the next one.
Finish(c) ==
    /\ h[c].pc = "done"
    /\ h' = [h EXCEPT ![c] = Idle]
    /\ UNCHANGED <<cfg, next, inst, uriMap, now, store, clients, faults>>

\* A second passes.
Tick ==
    /\ now < MaxTime
    /\ now' = now + 1
    /\ UNCHANGED <<cfg, next, inst, uriMap, store, clients, h, faults>>

\* The store's background sweep runs.
Sweep ==
    /\ inst = "ok"
    /\ store' = StoreSweep(store, now)
    /\ UNCHANGED <<cfg, next, inst, uriMap, now, clients, h, faults>>

\* The storage medium damages the blob stored under a key (the fault model
\* is a single fault in a behaviour).
Corrupt(k) ==
    /\ inst = "ok"
    /\ faults = 0
    /\ store[k].present
    /\ store' = [store EXCEPT ![k].b = Truncate(@)]
    /\ faults' = faults + 1
    /\ UNCHANGED <<cfg, next, inst, uriMap, now, clients, h>>

Next ==
    \/ New
    \/ \E c \in clients, r \in Requests : Lookup(c, r)
    \/ \E c \in clients : Upstream(c)
    \/ \E c \in clients : Admit(c)
    \/ \E c \in clients : Finish(c)
    \/ Tick
    \/ Sweep
    \/ \E k \in Keys : Corrupt(k)

Spec == Init /\ [][Next]_vars

(***************************************************************************)
(* The same instance serving two requests at a time: net/http runs each    *)
(* ServeHTTP call on its own goroutine, and the steps of the two calls     *)
(* interleave with each other, with the clock and with the sweep.          *)
(***************************************************************************)
\* The configurations and handlers of the concurrent runs: override mode
\* with one rule, which admits the requests of one of the two query strings
\* under either key, and a handler that does or does not call WriteHeader.
ConcScenarios ==
    { s \in Scenarios :
        /\ s[1].Path = "/cache"
        /\ s[1].MaxExpiry = MaxCfgExpiry
        /\ s[1].Cleanup = MaxCfgCleanup
        /\ s[1].AddStatusHeader
        /\ s[1].SkipCacheControlHeader
        /\ s[1].DefaultTTL = 0
        /\ s[1].URIs = <<Rule("q$", 1)>>
        /\ s[2].CC = ""
        /\ s[2].Late = ""
        /\ s[2].Code \in {0, 200} }

InitConc ==
    /\ \E s \in ConcScenarios : cfg = s[1] /\ next = s[2]
    /\ inst = "init"
    /\ uriMap = {}
    /\ now = 0
    /\ store = [k \in Keys |-> NoEntry]
    /\ clients = {1, 2}
    /\ h = [c \in clients |-> Idle]
    /\ faults = 0

SpecConc == InitConc /\ [][Next]_vars

(***************************************************************************)
(* Properties.                                                             *)
(***************************************************************************)
Range(q) == {q[i] : i \in 1..Len(q)}

\* The request of client c went through the wrapped handler and its
\* admission step is over.
PassedThrough(c) == h[c].pc = "done" /\ h[c].cs # cacheHitStatus

\* Whether some configured rule compiles and matches the request.
SomeRuleMatches(r) ==
    \E i \in 1..Len(cfg.URIs) :
        Compiles(cfg.URIs[i].Pattern) /\ MatchString(cfg.URIs[i].Pattern, URLString(r))

\* The freshness lifetime the response headers give: max-age if stated; with
\* no freshness stated, the time until the zero instant.
FreshnessLifetime(hdr) ==
    IF IsMaxAge(CacheControlOf(hdr)) THEN MaxAgeOf(CacheControlOf(hdr)) ELSE minDuration

\* The candidate TTLs of the policy for the request of client c.
CandidateTTLs(c) ==
    IF ~cfg.SkipCacheControlHeader
    THEN {FreshnessLifetime(h[c].w.hdr)}
    ELSE IF SomeRuleMatches(h[c].r)
         THEN {cfg.URIs[i].TTL : i \in {j \in 1..Len(cfg.URIs) :
                   /\ Compiles(cfg.URIs[j].Pattern)
                   /\ MatchString(cfg.URIs[j].Pattern, URLString(h[c].r))}}
         ELSE {cfg.DefaultTTL}

\* C1 (method gating): Store.Set is never called for a request whose method
\* is not in the configured AllowedHTTPMethods.
C1_MethodGating ==
    \A c \in clients :
        h[c].set.called => h[c].r.Method \in Range(cfg.AllowedHTTPMethods)

\* C2 (clamping): whenever a response is handed to Store.Set, the TTL is
\* min(c, MaxExpiry) for a candidate TTL c of the policy (the freshness
\* lifetime in standard mode; a matching rule's TTL, or DefaultTTL when no rule
\* matches, in override mode), so it never exceeds MaxExpiry.
C2_Clamping ==
    \A c \in clients :
        h[c].set.called =>
            /\ \E cand \in CandidateTTLs(c) : h[c].set.ttl = Min(cand, cfg.MaxExpiry)
            /\ h[c].set.ttl <= cfg.MaxExpiry

\* C2's case: standard mode, a freshness lifetime above MaxExpiry, and the
\* response stored with MaxExpiry as its TTL.
C2_Witness ==
    \E c \in clients :
        /\ ~cfg.SkipCacheControlHeader
        /\ h[c].set.called
        /\ FreshnessLifetime(h[c].w.hdr) > cfg.MaxExpiry
        /\ h[c].set.ttl = cfg.MaxExpiry
        /\ store[h[c].key].present
        /\ store[h[c].key].expires = h[c].tGet + cfg.MaxExpiry

\* C3 (non-positive expiry is not cacheable): Store.Set is never called with
\* an expiry that is 0 or negative.
C3_NonPositiveNotStored ==
    \A c \in clients : h[c].set.called => h[c].set.ttl > 0

\* C7 (configuration bounds): New fails exactly when MaxExpiry < 1 or
\* Cleanup < 1 or the store rejects the storage location.
C7_ConfigBounds ==
    inst # "init" =>
        ((inst = "error") <=>
            (cfg.MaxExpiry < 1 \/ cfg.Cleanup < 1 \/ ~newFileCacheOk(cfg.Path)))

\* What the lookup of client c found in the store: an entry whose expiry
\* instant had not passed, with bytes that decode (Live) or not (Undecodable),
\* or an entry whose expiry instant had passed (Stale).
SawLive(c) ==
    h[c].seen.present /\ ~(h[c].seen.expires < h[c].tGet) /\ UnmarshalOk(h[c].seen.b)

SawUndecodable(c) ==
    h[c].seen.present /\ ~(h[c].seen.expires < h[c].tGet) /\ ~UnmarshalOk(h[c].seen.b)

SawStale(c) == h[c].seen.present /\ h[c].seen.expires < h[c].tGet

\* The client of c received exactly what the wrapped handler wrote.
ReceivedFromHandler(c) ==
    /\ ~h[c].w.panic
    /\ h[c].w.code = (IF next.Code = 0 THEN 200 ELSE next.Code)
    /\ h[c].w.body = next.Body
    /\ h[c].w.sent["Cache-Control"] = (IF next.CC = "" THEN <<>> ELSE <<next.CC>>)

\* C4 (no stale serve): a request is served from cache only from an entry
\* whose expiry instant (the instant of the Set plus its TTL) had not passed
\* when it was looked up; a request that finds an entry past its expiry
\* instant, swept or not, is a miss and calls the wrapped handler.
C4_NoStaleServe ==
    \A c \in clients :
        /\ h[c].cs = cacheHitStatus =>
             h[c].seen.present /\ ~(h[c].seen.expires < h[c].tGet) /\ h[c].calls = 0
        /\ (h[c].pc # "idle" /\ SawStale(c)) => h[c].cs = cacheMissStatus
        /\ (h[c].pc \in {"admit", "done"} /\ SawStale(c)) => h[c].calls = 1

\* C4's case: a request found an entry that was still in the store after its
\* expiry instant, was not served from it, and went through the handler.
C4_Witness ==
    \E c \in clients :
        /\ h[c].pc = "done"
        /\ SawStale(c)
        /\ UnmarshalOk(h[c].seen.b)
        /\ h[c].seen.expires >= 0
        /\ h[c].cs = cacheMissStatus
        /\ h[c].calls = 1
        /\ ReceivedFromHandler(c)

\* C5 (hit replay): a request that looks up a key whose stored entry has not
\* reached its expiry instant is served from cache: the wrapped handler is not
\* called and the client receives the stored status code and body.
C5_HitReplay ==
    \A c \in clients :
        (h[c].pc # "idle" /\ SawLive(c) /\ h[c].tGet < h[c].seen.expires) =>
            /\ h[c].cs = cacheHitStatus
            /\ h[c].calls = 0
            /\ ~h[c].w.panic
            /\ h[c].w.code = Unmarshal(h[c].seen.b).Status
            /\ h[c].w.body = Unmarshal(h[c].seen.b).Body

\* C6 (key determinism): the key an execution of ServeHTTP uses is the key of
\* every request with the same method, host and path, whatever its query.
C6_KeyDeterminism ==
    \A c \in clients :
        h[c].pc # "idle" =>
            \A r2 \in Requests :
                (/\ r2.Method = h[c].r.Method
                 /\ r2.Host = h[c].r.Host
                 /\ r2.Path = h[c].r.Path) => cacheKey(r2) = h[c].key

\* C6's case: a request with a query string hits the entry that a request
\* without one stored.
C6_Witness ==
    \E c \in clients :
        /\ h[c].pc = "done"
        /\ h[c].r.RawQuery # ""
        /\ h[c].cs = cacheHitStatus
        /\ h[c].key = cacheKey([h[c].r EXCEPT !.RawQuery = ""])
        /\ Unmarshal(h[c].seen.b).Headers[cacheHeader] = <<cacheMissStatus>>

\* The headers a cold miss would hand to cacheable for the request of c.
ColdMissHeaders(c) ==
    IF cfg.AddStatusHeader
    THEN HeaderSet(h[c].w.hdr, cacheHeader, cacheMissStatus)
    ELSE h[c].w.hdr

\* C8 (miss on decode failure): when Get returns bytes that do not decode,
\* nothing of them reaches the client, the wrapped handler is called exactly
\* once, the client receives the handler's response and no error, and the
\* admission and write-back are those of a cold miss for the key.
C8_DecodeFailureIsMiss ==
    \A c \in clients :
        (h[c].pc # "idle" /\ SawUndecodable(c)) =>
            /\ h[c].cs # cacheHitStatus
            /\ ~h[c].w.panic
            /\ h[c].pc = "next" =>
                 h[c].calls = 0 /\ h[c].w.code = 0 /\ h[c].w.body = ""
            /\ h[c].pc \in {"admit", "done"} =>
                 h[c].calls = 1 /\ ReceivedFromHandler(c)
            /\ h[c].pc = "done" =>
                 LET cold == cacheable(cfg, uriMap, h[c].r, ColdMissHeaders(c),
                                       h[c].rw.status, now)
                 IN IF h[c].set.called
                    THEN /\ h[c].set.key = cacheKey(h[c].r)
                         /\ \E res \in cold : res.ok /\ res.expiry = h[c].set.ttl
                    ELSE \E res \in cold : ~res.ok

\* C8's case: a lookup got bytes that do not decode, the request went through
\* the handler and its response was stored again.
C8_Witness ==
    \E c \in clients :
        /\ h[c].pc = "done"
        /\ SawUndecodable(c)
        /\ h[c].cs = cacheErrorStatus
        /\ h[c].calls = 1
        /\ h[c].set.called /\ ~h[c].set.err
        /\ UnmarshalOk(store[h[c].key].b)

\* C9 (standard mode refusal): in standard mode, a response for which the
\* cache-control evaluation gives a reason against caching, or an error, is
\* never handed to Store.Set.
C9_StandardRefusal ==
    \A c \in clients :
        (~cfg.SkipCacheControlHeader /\ PassedThrough(c)) =>
            LET cr == CachableResponseWriter(h[c].r, h[c].rw.status, h[c].w.hdr, now)
            IN (cr.err \/ cr.reasons # {}) => ~h[c].set.called

\* C9's case: standard mode, a GET answered 200 with no-store, not stored.
C9_Witness ==
    \E c \in clients :
        /\ ~cfg.SkipCacheControlHeader
        /\ PassedThrough(c)
        /\ h[c].r.Method = "GET"
        /\ h[c].rw.status = 200
        /\ CacheControlOf(h[c].w.hdr) = "no-store"
        /\ ~h[c].set.called
        /\ ~store[h[c].key].present

\* C10 (override mode fallback): in override mode, when no rule matches the
\* request, the response is handed to Store.Set exactly when DefaultTTL > 0,
\* and then with min(DefaultTTL, MaxExpiry) as its TTL, whatever the status
\* and headers of the response.
C10_OverrideFallback ==
    \A c \in clients :
        (cfg.SkipCacheControlHeader /\ PassedThrough(c) /\ ~SomeRuleMatches(h[c].r)) =>
            /\ h[c].set.called <=> cfg.DefaultTTL > 0
            /\ h[c].set.called => h[c].set.ttl = Min(cfg.DefaultTTL, cfg.MaxExpiry)

\* C10's case: override mode, no matching rule, DefaultTTL = 0, a response
\* with status 500 and no-store: not stored.
C10_Witness ==
    \E c \in clients :
        /\ cfg.SkipCacheControlHeader
        /\ PassedThrough(c)
        /\ ~SomeRuleMatches(h[c].r)
        /\ cfg.URIs # <<>>
        /\ cfg.DefaultTTL = 0
        /\ h[c].rw.status = 500
        /\ ~h[c].set.called


\* The TTL of the first rule, in the order of Config.URIs, that compiles and
\* matches the request.
FirstMatchTTL(r) ==
    LET first == CHOOSE i \in 1..Len(cfg.URIs) :
                     /\ Compiles(cfg.URIs[i].Pattern)
                     /\ MatchString(cfg.URIs[i].Pattern, URLString(r))
                     /\ \A j \in 1..(i - 1) :
                            ~(/\ Compiles(cfg.URIs[j].Pattern)
                              /\ MatchString(cfg.URIs[j].Pattern, URLString(r)))
    IN cfg.URIs[first].TTL

\* C11 (first-declared rule wins): in override mode, when rules match the
\* request, the TTL handed to Store.Set is that of the first matching rule in
\* the order of Config.URIs, clamped to MaxExpiry.
C11_FirstDeclaredRuleWins ==
    \A c \in clients :
        (/\ cfg.SkipCacheControlHeader
         /\ PassedThrough(c)
         /\ SomeRuleMatches(h[c].r)) =>
            /\ h[c].set.called
            /\ h[c].set.ttl = Min(FirstMatchTTL(h[c].r), cfg.MaxExpiry)

\* C12 (default status capture): when the wrapped handler writes its body
\* without calling WriteHeader, the captured status, which the admission
\* decision and the stored entry use, is 200.
C12_DefaultStatusCapture ==
    \A c \in clients :
        (h[c].pc \in {"admit", "done"} /\ h[c].calls = 1 /\ next.Code = 0) =>
            /\ h[c].rw.status = 200
            /\ (h[c].set.called /\ UnmarshalOk(h[c].set.b)) =>
                   Unmarshal(h[c].set.b).Status = 200


\* C13 (header snapshot point): the headers of the entry handed to Store.Set
\* are the response headers as they stood at the first WriteHeader or Write,
\* which are the headers the client received.
C13_HeaderSnapshot ==
    \A c \in clients :
        (PassedThrough(c) /\ h[c].set.called /\ ~h[c].set.encErr) =>
            Unmarshal(h[c].set.b).Headers = h[c].w.sent


\* C14 (best-effort write-back): once the wrapped handler has returned, and
\* so before the entry is encoded or handed to Store.Set, the client has
\* received everything the handler wrote; after the write-back, whether the
\* encoding or Store.Set failed or not, the client still holds exactly the
\* handler's response, and nothing panicked.
C14_BestEffortWriteBack ==
    \A c \in clients :
        (h[c].pc \in {"admit", "done"} /\ h[c].cs # cacheHitStatus) =>
            /\ ReceivedFromHandler(c)
            /\ h[c].w.body = h[c].rw.body
            /\ h[c].pc = "admit" => ~h[c].set.called

\* C14's case: Store.Set returned an error for a response that was admitted.
C14_Witness ==
    \E c \in clients :
        /\ PassedThrough(c)
        /\ h[c].set.called
        /\ h[c].set.err
        /\ ReceivedFromHandler(c)

\* C14's other case: the encoding of an admitted response failed.
C14_EncodeErrorCase ==
    \E c \in clients :
        /\ PassedThrough(c)
        /\ h[c].set.encErr
        /\ ReceivedFromHandler(c)


\* C15 (diagnostic headers): with AddStatusHeader, the header map of every
\* finished request, and every response that was sent, carries exactly one
\* Cache-Status value, the one of the path taken: hit when the lookup found a
\* live decodable entry and the handler was not called, error when it found
\* live bytes that do not decode, miss otherwise.  On a hit Cache-Control is
\* the single value max-age=n, n being the entry's ExpiresAt minus the serve
\* time in seconds, with 0 <= n <= MaxExpiry.
C15_DiagnosticHeaders ==
    \A c \in clients :
        (cfg.AddStatusHeader /\ h[c].pc = "done") =>
            /\ h[c].w.hdr[cacheHeader] = <<h[c].cs>>
            /\ ~h[c].w.panic => h[c].w.sent[cacheHeader] = <<h[c].cs>>
            /\ h[c].cs = (IF SawLive(c) THEN cacheHitStatus
                          ELSE IF SawUndecodable(c) THEN cacheErrorStatus
                          ELSE cacheMissStatus)
            /\ (h[c].cs = cacheHitStatus) = (h[c].calls = 0)
            /\ h[c].cs = cacheHitStatus =>
                 LET n == Unmarshal(h[c].seen.b).ExpiresAt - h[c].tGet
                 IN /\ h[c].w.hdr["Cache-Control"] = <<MaxAgeValue(n)>>
                    /\ ~h[c].w.panic =>
                         h[c].w.sent["Cache-Control"] = <<MaxAgeValue(n)>>
                    /\ 0 <= n
                    /\ n <= cfg.MaxExpiry

\* C15's case: a hit, a second after the entry was stored with its own
\* Cache-Control and Cache-Status values, was answered to the client.
C15_Witness ==
    \E c \in clients :
        /\ cfg.AddStatusHeader
        /\ h[c].pc = "done"
        /\ h[c].cs = cacheHitStatus
        /\ ~h[c].w.panic
        /\ Unmarshal(h[c].seen.b).Headers[cacheHeader] # <<>>
        /\ Unmarshal(h[c].seen.b).Headers["Cache-Control"] # <<>>
        /\ Unmarshal(h[c].seen.b).ExpiresAt - h[c].tGet = 1
        /\ h[c].w.sent["Cache-Control"] = <<MaxAgeValue(1)>>


\* The request r with its query string replaced by q.
WithQuery(r, q) == [r EXCEPT !.RawQuery = q]

\* C16 (override matching ignores the query string): in override mode the
\* admission decision and the TTL of a request are those of every request
\* with the same method, host and path, whatever its query string.
C16_QueryIgnored ==
    \A c \in clients :
        (cfg.SkipCacheControlHeader /\ PassedThrough(c)) =>
            \A q \in Queries :
                LET other == cacheable(cfg, uriMap, WithQuery(h[c].r, q),
                                       h[c].w.hdr, h[c].rw.status, now)
                IN IF h[c].set.called
                   THEN \E res \in other : res.ok /\ res.expiry = h[c].set.ttl
                   ELSE \E res \in other : ~res.ok

\* C17 (DefaultTTL as fallback in standard mode): when the upstream response
\* is cacheable and states no freshness lifetime, and DefaultTTL is positive,
\* the response is stored with DefaultTTL clamped to MaxExpiry.
C17_DefaultTTLFallback ==
    \A c \in clients :
        LET cr == CachableResponseWriter(h[c].r, h[c].rw.status, h[c].w.hdr, now)
        IN (/\ ~cfg.SkipCacheControlHeader
            /\ PassedThrough(c)
            /\ cr.reasons = {}
            /\ ~cr.err
            /\ cr.expireBy = zeroTime
            /\ cfg.DefaultTTL > 0) =>
               /\ h[c].set.called
               /\ h[c].set.ttl = Min(cfg.DefaultTTL, cfg.MaxExpiry)


\* C18 (lookups do not mutate): a step of a request that is its lookup (hit
\* or not), its call of the wrapped handler, or an admission that refuses the
\* response leaves the store as it was; a request served from cache has not
\* called the wrapped handler; an admission that calls Store.Set changes at
\* most the entry under the request's own key.
C18_LookupsDoNotMutate ==
    [][\A c \in clients :
         h'[c] # h[c] =>
            /\ h[c].pc # "admit" => store' = store
            /\ h[c].pc = "admit" =>
                 IF h'[c].set.called
                 THEN \A k \in Keys \ {cacheKey(h[c].r)} : store'[k] = store[k]
                 ELSE store' = store
            /\ h'[c].cs = cacheHitStatus => h'[c].calls = 0]_vars

\* C18's case: a request was served from cache while the store holds entries
\* under both keys, and the entry it was served from is still there.
C18_Witness ==
    \E c \in clients :
        /\ h[c].pc = "done"
        /\ h[c].cs = cacheHitStatus
        /\ h[c].calls = 0
        /\ store[h[c].key] = h[c].seen
        /\ \A k \in Keys : store[k].present


\* C20 (only well-formed entries are stored): every value handed to Store.Set
\* is the successful encoding of the entry holding the captured status,
\* headers and body; when the encoding fails Store.Set is not called.
C20_OnlyWellFormedStored ==
    \A c \in clients :
        /\ h[c].set.encErr => ~h[c].set.called
        /\ (PassedThrough(c) /\ h[c].set.called) =>
             /\ UnmarshalOk(h[c].set.b)
             /\ Unmarshal(h[c].set.b).Status = h[c].rw.status
             /\ Unmarshal(h[c].set.b).Headers = h[c].w.hdr
             /\ Unmarshal(h[c].set.b).Body = h[c].rw.body


\* The executions that wrote the entry now under their key: they called
\* Store.Set without error and the store still holds their bytes.
WritersOf(k) ==
    {c \in clients : /\ h[c].pc = "done"
                     /\ h[c].key = k
                     /\ h[c].set.called
                     /\ ~h[c].set.err}

\* C19 (concurrent requests on one key): in every interleaving of two
\* ServeHTTP executions with the clock, the sweep and each other, no
\* execution panics, every execution that is under way can take its next
\* step, a response served from cache is the status, headers and body of one
\* stored snapshot, which holds one handler response, and when both
\* executions have written the same key the entry there is the one of either.
C19_ConcurrentSnapshots ==
    /\ \A c \in clients :
         /\ ~h[c].w.panic
         /\ h[c].pc = "next" => ENABLED Upstream(c)
         /\ h[c].pc = "admit" => ENABLED Admit(c)
         /\ h[c].pc = "done" => ENABLED Finish(c)
         /\ (h[c].pc = "done" /\ h[c].cs = cacheHitStatus) =>
              LET d == Unmarshal(h[c].seen.b)
              IN /\ SawLive(c)
                 /\ h[c].w.code = d.Status
                 /\ h[c].w.body = d.Body
                 /\ ~cfg.AddStatusHeader => h[c].w.sent = d.Headers
                 /\ d.Status = next.Code
                 /\ d.Body = next.Body
    /\ \A k \in Keys :
         (faults = 0 /\ store[k].present /\ Cardinality(WritersOf(k)) = 2) =>
            \E c \in WritersOf(k) :
                /\ store[k].b = h[c].set.b
                /\ store[k].expires = Unmarshal(h[c].set.b).ExpiresAt

====
